---- MODULE Spec2Model ----
(***************************************************************************)
(* Version-gated ingestion pipeline of end-to-end-aws-data-pipeline:       *)
(*   - the coordinator lambda (lambda_function 2.py, kept in               *)
(*     src/first_lambda_function.py from line 155 on),                     *)
(*   - the downstream lambda started by the workflow                       *)
(*     (src/first_lambda_function.py lines 22..152),                       *)
(*   - the load job (src/delta-load-.py).                                  *)
(* Text is modelled as sequences of one-character strings, an object key   *)
(* as the sequence of its '/'-separated segments.                          *)
(***************************************************************************)
EXTENDS Integers, Sequences, FiniteSets, Bags, TLC

VARIABLES
    tracker,   \* the DynamoDB item FileName = "database_list": NoItem or basename -> folder_name
    cinv,      \* coordinator invocations, in order of arrival
    queue,     \* messages the FIFO queue kept (after deduplication)
    execs,     \* workflow executions started, in order
    runs,      \* load job runs, in order of start
    tables,    \* the relational store: table name -> NoTable or [keyed, rows]
    directs,   \* number of load job runs started directly with --file_path
    ut         \* the trial of the single-function specifications (idle under Spec)

vars == <<tracker, cinv, queue, execs, runs, tables, directs, ut>>

----------------------------------------------------------------------------
\* Bounds of the model.
MaxArrivals == 2
MaxDirectRuns == 1
MaxRuns == 2
MaxRows == 2
MaxRedrives == 2

----------------------------------------------------------------------------
\* Text helpers.

Digits == <<"0", "1", "2", "3", "4", "5", "6", "7", "8", "9">>

IsDigit(c) == \E d \in 1..10 : Digits[d] = c

DigitVal(c) == (CHOOSE d \in 1..10 : Digits[d] = c) - 1

RECURSIVE RemoveChar(_, _)
\* str.replace(c, '') for a one-character c
RemoveChar(s, c) ==
    IF s = <<>> THEN <<>>
    ELSE IF Head(s) = c THEN RemoveChar(Tail(s), c)
         ELSE <<Head(s)>> \o RemoveChar(Tail(s), c)

RECURSIVE DigitsValue(_, _)
\* value of a run of decimal digits, most significant first
DigitsValue(s, acc) ==
    IF s = <<>> THEN acc ELSE DigitsValue(Tail(s), 10 * acc + DigitVal(Head(s)))

\* the digits-and-underscores body Python's int() accepts: it starts and ends
\* with a digit and holds no two adjacent underscores
IntBodyOk(s) ==
    /\ Len(s) > 0
    /\ \A i \in 1..Len(s) : IsDigit(s[i]) \/ s[i] = "_"
    /\ IsDigit(s[1]) /\ IsDigit(s[Len(s)])
    /\ \A i \in 1..(Len(s) - 1) : ~(s[i] = "_" /\ s[i + 1] = "_")

HasSign(s) == Len(s) > 0 /\ s[1] \in {"-", "+"}

IntBody(s) == IF HasSign(s) THEN Tail(s) ELSE s

\* whether Python's int(s) returns (TRUE) or raises ValueError (FALSE)
PyIntOk(s) == IntBodyOk(IntBody(s))

\* Python's int(s) where it returns
PyInt(s) ==
    LET v == DigitsValue(RemoveChar(IntBody(s), "_"), 0)
    IN IF HasSign(s) /\ s[1] = "-" THEN 0 - v ELSE v

RECURSIVE NatStr(_)
NatStr(n) == IF n < 10 THEN <<Digits[n + 1]>> ELSE NatStr(n \div 10) \o <<Digits[(n % 10) + 1]>>

\* Python's str(n) of an int
PyStr(n) == IF n < 0 THEN <<"-">> \o NatStr(0 - n) ELSE NatStr(n)

IsPrefix(p, s) == Len(p) <= Len(s) /\ SubSeq(s, 1, Len(p)) = p

RECURSIVE RemoveAll(_, _)
\* str.replace(p, ''): every non-overlapping occurrence of p, left to right
RemoveAll(s, p) ==
    IF s = <<>> THEN <<>>
    ELSE IF IsPrefix(p, s) THEN RemoveAll(SubSeq(s, Len(p) + 1, Len(s)), p)
         ELSE <<Head(s)>> \o RemoveAll(Tail(s), p)

DotCsv == <<".", "c", "s", "v">>

\* file_name.rsplit('.', 1)[0]: the text before the last '.', all of it without one
BaseNameOf(file) ==
    LET dots == {i \in 1..Len(file) : file[i] = "."}
    IN IF dots = {} THEN file
       ELSE SubSeq(file, 1, (CHOOSE i \in dots : \A j \in dots : j <= i) - 1)

\* key.split("/")[-1].replace(".csv", "")
TableNameOf(key) == RemoveAll(key[Len(key)], DotCsv)

----------------------------------------------------------------------------
\* The inputs the model draws from.

BucketName == <<"d", "l">>

FileA == <<"a", ".", "c", "s", "v">>
FileB == <<"b", ".", "c", "s", "v">>

\* object keys of the arrival notifications: <folder>/<file> with folders
\* -1, 0 and 1, a folder that is no integer, and a key of three segments
ArrivalKeys ==
    { <<f, FileA>> : f \in { <<"-", "1">>, <<"0">>, <<"1">> } }
    \cup { <<<<"0">>, FileB>>, <<<<"x">>, FileA>>, <<<<"0">>, <<"p">>, FileA>> }

\* keys a load job run is started with directly
DirectKeys == { <<<<"0">>, FileB>> }

\* the arrivals of the stale-rejection scenario, in the order they are
\* delivered: students at 2024010100, at 2024010099 and at 2024010200, and
\* the last one delivered once more
FileStudents == <<"s", "t", "u", "d", "e", "n", "t", "s", ".", "c", "s", "v">>

V1 == <<"2", "0", "2", "4", "0", "1", "0", "1", "0", "0">>
V2 == <<"2", "0", "2", "4", "0", "1", "0", "0", "9", "9">>
V3 == <<"2", "0", "2", "4", "0", "1", "0", "2", "0", "0">>

ScenarioKeys == << <<V1, FileStudents>>, <<V2, FileStudents>>,
                  <<V3, FileStudents>>, <<V3, FileStudents>> >>

----------------------------------------------------------------------------
\* The tracking store: one item, FileName = "database_list", holding the map
\* database_list: basename -> folder_name.

NoItem == [exists |-> FALSE, list |-> <<>>]

EmptyItem == [exists |-> TRUE, list |-> <<>>]

\* f with key k set to v (k may be new)
MapSet(f, k, v) == [x \in (DOMAIN f) \cup {k} |-> IF x = k THEN v ELSE f[x]]

----------------------------------------------------------------------------
\* The coordinator: lambda_handler of lambda_function 2.py.

\* file_path = f"s3://{bucket_name}/{object_key}", as '/'-separated segments
FilePathOf(bucket, key) == <<<<"s", "3", ":">>, <<>>, bucket>> \o key

\* KeyParses with the segments after the second one ignored
KeyParsesLoose(key) == Len(key) >= 2 /\ PyIntOk(key[1])

\* whether the parse of the object key returns (exactly two segments, the
\* first one an int) or raises
KeyParses(key) == Len(key) = 2 /\ PyIntOk(key[1])

\* Decide with an absent item or entry read as a stored version 0
DecideAbsentIsZero(item, base, ts) ==
    LET absent == ~item.exists \/ base \notin DOMAIN item.list
        digits == IF absent THEN <<"0">> ELSE RemoveChar(item.list[base], "_")
    IN IF ~absent /\ item.list[base] = <<>> THEN "error"
       ELSE IF ~PyIntOk(digits) THEN "error"
       ELSE IF ts > PyInt(digits) THEN "accept"
       ELSE "reject"

\* Decide with a version equal to the stored one accepted
DecideAcceptsEqual(item, base, ts) ==
    IF ~item.exists THEN "accept"
    ELSE IF base \notin DOMAIN item.list THEN "accept"
    ELSE LET folder_name == item.list[base]
             digits == RemoveChar(folder_name, "_")
         IN IF folder_name = <<>> THEN "error"
            ELSE IF ~PyIntOk(digits) THEN "error"
            ELSE IF ts >= PyInt(digits) THEN "accept"
            ELSE "reject"

\* the decision taken on the item get_item returned
Decide(item, base, ts) ==
    IF ~item.exists THEN "accept"
    ELSE IF base \notin DOMAIN item.list THEN "accept"
    ELSE LET folder_name == item.list[base]
             digits == RemoveChar(folder_name, "_")
         IN IF folder_name = <<>> THEN "error"
            ELSE IF ~PyIntOk(digits) THEN "error"
            ELSE IF ts > PyInt(digits) THEN "accept"
            ELSE "reject"

MessageGroupId(base, ts) == base \o <<"-">> \o PyStr(ts)

MessageDeduplicationId(base, ts) == base \o PyStr(ts)

\* the FIFO queue drops a message whose deduplication id it has seen
Enqueue(q, msg) ==
    IF \E i \in 1..Len(q) : q[i].dedup = msg.dedup THEN q ELSE Append(q, msg)

DoneIds == {i \in 1..Len(cinv) : cinv[i].pc = "done"}

\* the response of an invocation that called process_new_file: the handler
\* drops what process_new_file returns and answers 'File processed successfully'
OutcomeAfterDispatch(sent, started) == "processed"

\* lambda_handler up to the decision: the key is parsed, get_item is called
\* and the decision is taken on its answer
Handle(key) ==
    /\ LET ok == KeyParses(key)
           base == IF ok THEN BaseNameOf(key[2]) ELSE <<>>
           ts == IF ok THEN PyInt(key[1]) ELSE 0
           new == [key |-> key, base |-> base, ts |-> ts, read |-> FALSE,
                   item |-> NoItem, decision |-> "none", pc |-> "done",
                   outcome |-> "parse_error", sent |-> "no", started |-> "no",
                   prior |-> DoneIds]
       IN \/ /\ ~ok
             /\ cinv' = Append(cinv, new)
          \/ /\ ok
             /\ LET d == Decide(tracker, base, ts)
                IN cinv' = Append(cinv,
                     [new EXCEPT !.read = TRUE,
                                 !.item = tracker,
                                 !.decision = d,
                                 !.pc = IF d = "accept" THEN "dispatch" ELSE "done",
                                 !.outcome = IF d = "accept" THEN "none"
                                             ELSE IF d = "reject" THEN "stale"
                                             ELSE "error"])
          \/ \* get_item raises: caught, statusCode 500
             /\ ok
             /\ cinv' = Append(cinv, [new EXCEPT !.decision = "error", !.outcome = "error"])
    /\ UNCHANGED <<tracker, queue, execs, runs, tables, directs, ut>>

\* an arrival notification starts an invocation
Arrive(key) ==
    /\ Len(cinv) < MaxArrivals
    /\ Handle(key)

\* the message process_new_file sends; st is its state in the queue:
\* "queued", "inflight" (received, not deleted) or "done" (deleted)
\* nothing of the earlier arrivals is still under way
AtRest ==
    /\ \A n \in 1..Len(cinv) : cinv[n].pc = "done"
    /\ \A e \in 1..Len(execs) : execs[e].pc # "started"
    /\ \A r \in 1..Len(runs) : runs[r].pc \in {"done", "failed", "aborted"}

\* the arrivals of the scenario start their invocations one after the other,
\* each when the work of the earlier ones has come to rest
ArriveScenario ==
    /\ Len(cinv) < Len(ScenarioKeys)
    /\ AtRest
    /\ Handle(ScenarioKeys[Len(cinv) + 1])

QueueMessage(n) ==
    [path |-> FilePathOf(BucketName, cinv[n].key),
     group |-> MessageGroupId(cinv[n].base, cinv[n].ts),
     dedup |-> MessageDeduplicationId(cinv[n].base, cinv[n].ts),
     st |-> "queued"]

\* a workflow execution started with {'filePath': path}; by is the invocation
\* that started it, 0 for a re-drive
NewExec(path, by) ==
    [form |-> "filePath", path |-> path, by |-> by, pc |-> "started", err |-> "none"]

\* Dispatch with the tracking record advanced to the dispatched version
DispatchEager(n) ==
    /\ cinv[n].pc = "dispatch"
    /\ \/ /\ cinv' = [cinv EXCEPT ![n].sent = "failed",
                                  ![n].pc = "done",
                                  ![n].outcome = OutcomeAfterDispatch("failed", "no")]
          /\ UNCHANGED <<queue, execs, tracker>>
       \/ /\ queue' = Enqueue(queue, QueueMessage(n))
          /\ cinv' = [cinv EXCEPT ![n].sent = "ok",
                                  ![n].started = "failed",
                                  ![n].pc = "done",
                                  ![n].outcome = OutcomeAfterDispatch("ok", "failed")]
          /\ UNCHANGED <<execs, tracker>>
       \/ /\ queue' = Enqueue(queue, QueueMessage(n))
          /\ execs' = Append(execs,
                NewExec(FilePathOf(BucketName, cinv[n].key), n))
          /\ cinv' = [cinv EXCEPT ![n].sent = "ok",
                                  ![n].started = "ok",
                                  ![n].pc = "done",
                                  ![n].outcome = OutcomeAfterDispatch("ok", "ok")]
          /\ tracker' = [exists |-> TRUE,
                         list |-> MapSet(tracker.list, cinv[n].base, cinv[n].key[1])]
    /\ UNCHANGED <<runs, tables, directs, ut>>

\* Dispatch with the workflow started whether or not send_message returned
DispatchIndependent(n) ==
    /\ cinv[n].pc = "dispatch"
    /\ \E s \in {"ok", "failed"}, t \in {"ok", "failed"} :
          /\ queue' = IF s = "ok" THEN Enqueue(queue, QueueMessage(n)) ELSE queue
          /\ execs' = IF t = "ok"
                      THEN Append(execs, NewExec(FilePathOf(BucketName, cinv[n].key), n))
                      ELSE execs
          /\ cinv' = [cinv EXCEPT ![n].sent = s,
                                  ![n].started = t,
                                  ![n].pc = "done",
                                  ![n].outcome = OutcomeAfterDispatch(s, t)]
    /\ UNCHANGED <<tracker, runs, tables, directs, ut>>

\* process_new_file: sqs.send_message, then trigger_step_function, which starts
\* an execution named with a fresh uuid; an exception of either is caught and
\* what process_new_file returns is dropped
Dispatch(n) ==
    /\ cinv[n].pc = "dispatch"
    /\ \/ \* send_message raises: the workflow is not started
          /\ cinv' = [cinv EXCEPT ![n].sent = "failed",
                                  ![n].pc = "done",
                                  ![n].outcome = OutcomeAfterDispatch("failed", "no")]
          /\ UNCHANGED <<queue, execs>>
       \/ \* start_execution raises
          /\ queue' = Enqueue(queue, QueueMessage(n))
          /\ cinv' = [cinv EXCEPT ![n].sent = "ok",
                                  ![n].started = "failed",
                                  ![n].pc = "done",
                                  ![n].outcome = OutcomeAfterDispatch("ok", "failed")]
          /\ UNCHANGED execs
       \/ /\ queue' = Enqueue(queue, QueueMessage(n))
          /\ execs' = Append(execs,
                NewExec(FilePathOf(BucketName, cinv[n].key), n))
          /\ cinv' = [cinv EXCEPT ![n].sent = "ok",
                                  ![n].started = "ok",
                                  ![n].pc = "done",
                                  ![n].outcome = OutcomeAfterDispatch("ok", "ok")]
    /\ UNCHANGED <<tracker, runs, tables, directs, ut>>

----------------------------------------------------------------------------
\* The relational store and the files.

NoTable == [exists |-> FALSE, keyed |-> FALSE, rows |-> EmptyBag]

\* a table create_rds_table made: columns only, no key
CreatedTable == [exists |-> TRUE, keyed |-> FALSE, rows |-> EmptyBag]

\* a table provisioned upstream, with a primary key on its first column
KeyedTable == [exists |-> TRUE, keyed |-> TRUE, rows |-> EmptyBag]

TableNames ==
    { TableNameOf(k) : k \in {x \in ArrivalKeys \cup DirectKeys : Len(x) = 2} }
    \cup { TableNameOf(ScenarioKeys[i]) : i \in 1..Len(ScenarioKeys) }

\* an empty CSV field is read as a null
IsNull(v) == v = <<>>

\* the rows of the file stored under a key: the folder name is the payload;
\* one row is repeated and one holds a null
RawRows(key) ==
    << [id |-> 1, val |-> key[1]],
       [id |-> 1, val |-> key[1]],
       [id |-> 3, val |-> <<>>],
       [id |-> 2, val |-> key[1]] >>

RowHasNull(row) == IsNull(row.val)

NullRowCount(rows) == Cardinality({i \in 1..Len(rows) : RowHasNull(rows[i])})

RECURSIVE DropNa(_)
DropNa(rows) ==
    IF rows = <<>> THEN <<>>
    ELSE IF RowHasNull(Head(rows)) THEN DropNa(Tail(rows))
         ELSE <<Head(rows)>> \o DropNa(Tail(rows))

RECURSIVE DropDuplicates(_, _)
\* keeps the first occurrence of every row
DropDuplicates(rows, seen) ==
    IF rows = <<>> THEN <<>>
    ELSE IF Head(rows) \in seen THEN DropDuplicates(Tail(rows), seen)
         ELSE <<Head(rows)>> \o DropDuplicates(Tail(rows), seen \cup {Head(rows)})

\* CleanData without drop_duplicates
CleanDataDropNaOnly(rows) == DropNa(rows)

\* clean_data: df.dropna().drop_duplicates()
CleanData(rows) == DropDuplicates(DropNa(rows), {})

\* INSERT ... ON DUPLICATE KEY UPDATE col = VALUES(col): a row in conflict on
\* the table's key takes the new values; without a key nothing is in conflict
UpsertRow(tbl, row) ==
    IF tbl.keyed
    THEN LET kept == {x \in DOMAIN tbl.rows : x.id # row.id}
         IN [tbl EXCEPT !.rows = [x \in kept |-> tbl.rows[x]] (+) SetToBag({row})]
    ELSE [tbl EXCEPT !.rows = tbl.rows (+) SetToBag({row})]

----------------------------------------------------------------------------
\* The downstream lambda (first_lambda_function.py) run by a workflow
\* execution with the input {"filePath": file_path}.

\* parse_s3_path on the segments of the path: "s3://" removed, then
\* split("/", 1) and key.split("/")[0]
ParseS3Path(path) ==
    LET rest == IF Len(path) >= 2 /\ path[1] = <<"s", "3", ":">> /\ path[2] = <<>>
                THEN SubSeq(path, 3, Len(path)) ELSE path
        key == Tail(rest)
    IN [bucket_name |-> Head(rest), key |-> key, folder_name |-> Head(key)]

StartsWithS3(path) == Len(path) >= 2 /\ path[1] = <<"s", "3", ":">> /\ path[2] = <<>>

NoErr == [kind |-> "none", row |-> 0]

NewRun(path, by) ==
    LET p == ParseS3Path(path)
    IN [path |-> path, key |-> p.key, folder |-> p.folder_name,
        table |-> TableNameOf(p.key), by |-> by, pc |-> "read",
        k |-> 0, alerts |-> 0, published |-> 0, found |-> FALSE, wrote |-> FALSE,
        notified |-> FALSE, err |-> NoErr]

\* CREATE TABLE IF NOT EXISTS
CreateRdsTable(tbls, name) ==
    IF tbls[name].exists THEN tbls ELSE [tbls EXCEPT ![name] = CreatedTable]

\* lambda_handler: analyze_database_file, get_rds_credentials, create_rds_table,
\* trigger_glue_job(file_path). trigger_glue_job raises ValueError for a
\* file_path that does not start with "s3://", after the table was created.
\* The 'Records' branch binds bucket_name and key and no file_path, so the
\* call trigger_glue_job(file_path) raises UnboundLocalError
DownstreamLambda(e) ==
    /\ execs[e].pc = "started"
    /\ LET p == ParseS3Path(execs[e].path)
           name == TableNameOf(p.key)
       IN \/ \* the file read or the table creation raises
             /\ execs' = [execs EXCEPT ![e].pc = "failed", ![e].err = "service"]
             /\ UNCHANGED <<tables, runs>>
          \/ \* start_job_run raises after the table was created
             /\ execs[e].form = "filePath"
             /\ StartsWithS3(execs[e].path)
             /\ execs' = [execs EXCEPT ![e].pc = "failed", ![e].err = "service"]
             /\ tables' = CreateRdsTable(tables, name)
             /\ UNCHANGED runs
          \/ /\ execs[e].form = "filePath"
             /\ ~StartsWithS3(execs[e].path)
             /\ execs' = [execs EXCEPT ![e].pc = "failed", ![e].err = "ValueError"]
             /\ tables' = CreateRdsTable(tables, name)
             /\ UNCHANGED runs
          \/ \* 'Records' branch: file_path was never bound
             /\ execs[e].form = "Records"
             /\ execs' = [execs EXCEPT ![e].pc = "failed", ![e].err = "UnboundLocalError"]
             /\ tables' = CreateRdsTable(tables, name)
             /\ UNCHANGED runs
          \/ /\ execs[e].form = "filePath"
             /\ StartsWithS3(execs[e].path)
             /\ Len(runs) < MaxRuns
             /\ execs' = [execs EXCEPT ![e].pc = "triggered"]
             /\ tables' = CreateRdsTable(tables, name)
             /\ runs' = Append(runs, NewRun(execs[e].path, e))
    /\ UNCHANGED <<tracker, cinv, queue, directs, ut>>

\* the downstream lambda is invoked with an object-created notification:
\* 'Records' naming the bucket and the key; path stands for that object
ObjectCreated(key) ==
    /\ Cardinality({e \in 1..Len(execs) : execs[e].by = 0}) < MaxRedrives
    /\ execs' = Append(execs, [NewExec(FilePathOf(BucketName, key), 0) EXCEPT
                                 !.form = "Records"])
    /\ UNCHANGED <<tracker, cinv, queue, runs, tables, directs, ut>>

\* the locators of the re-drive messages: <container>/<key> and s3://<container>/<key>
RedrivePaths ==
    { <<BucketName, <<"0">>, FileB>>, FilePathOf(BucketName, <<<<"0">>, FileB>>) }

\* an explicit re-drive: the downstream lambda is invoked with a filePath
Redrive(path) ==
    /\ Cardinality({e \in 1..Len(execs) : execs[e].by = 0}) < MaxRedrives
    /\ execs' = Append(execs, NewExec(path, 0))
    /\ UNCHANGED <<tracker, cinv, queue, runs, tables, directs, ut>>

----------------------------------------------------------------------------
\* The load job: main of delta-load-.py.

\* the job started with --file_path, outside the workflow
DirectJobRun(key) ==
    /\ directs < MaxDirectRuns
    /\ Len(runs) < MaxRuns
    /\ directs' = directs + 1
    /\ runs' = Append(runs, NewRun(FilePathOf(BucketName, key), 0))
    /\ UNCHANGED <<tracker, cinv, queue, execs, tables, ut>>

Cleaned(r) == CleanData(RawRows(runs[r].key))

\* PcAfterCheck without the return of main on a missing table
PcAfterCheckNoReturn(exists, n) == IF n = 0 \/ ~exists THEN "ud_get1" ELSE "upload"

\* where main goes after check_rds_table answered
PcAfterCheck(exists, n) ==
    IF ~exists THEN "aborted" ELSE IF n = 0 THEN "ud_get1" ELSE "upload"

\* main up to the table check. read_s3_file_to_dataframe reads the file and
\* calls publish once per row with a null (a ClientError of publish is logged
\* only); then check_rds_table is asked
JobReadAndCheck(r) ==
    /\ runs[r].pc = "read"
    /\ \E delivered \in 0..NullRowCount(RawRows(runs[r].key)) :
          runs' = [runs EXCEPT
                     ![r].alerts = NullRowCount(RawRows(runs[r].key)),
                     ![r].published = delivered,
                     ![r].pc = PcAfterCheck(tables[runs[r].table].exists, Len(Cleaned(r)))]
    /\ UNCHANGED <<tracker, cinv, queue, execs, tables, directs, ut>>

\* where main goes after the statement of row k of n was committed
PcAfterCommit(k, n) == IF k = n THEN "ud_get1" ELSE "upload"

\* the exception upload_to_rds re-raises is the driver's: the loop index is
\* discarded (for _, row in df.iterrows()) and nothing is added to the error
RowError(k) == [kind |-> "MySQLError", row |-> 0]

\* UploadRow with the exception of a row logged and the loop continued
UploadRowSwallow(r) ==
    /\ runs[r].pc = "upload"
    /\ LET rows == Cleaned(r)
           k == runs[r].k + 1
       IN \/ /\ tables' = [tables EXCEPT ![runs[r].table] = UpsertRow(@, rows[k])]
             /\ runs' = [runs EXCEPT ![r].k = k, ![r].pc = PcAfterCommit(k, Len(rows))]
          \/ /\ runs' = [runs EXCEPT ![r].k = k, ![r].pc = PcAfterCommit(k, Len(rows)),
                                     ![r].err = RowError(k)]
             /\ UNCHANGED tables
    /\ UNCHANGED <<tracker, cinv, queue, execs, directs, ut>>

\* upload_to_rds, one row: execute and commit, or rollback and raise
UploadRow(r) ==
    /\ runs[r].pc = "upload"
    /\ LET rows == Cleaned(r)
           k == runs[r].k + 1
       IN \/ /\ tables' = [tables EXCEPT ![runs[r].table] = UpsertRow(@, rows[k])]
             /\ runs' = [runs EXCEPT ![r].k = k, ![r].pc = PcAfterCommit(k, Len(rows))]
          \/ /\ runs' = [runs EXCEPT ![r].pc = "failed", ![r].err = RowError(k)]
             /\ UNCHANGED tables
    /\ UNCHANGED <<tracker, cinv, queue, execs, directs, ut>>

\* UdGet1 with put_item called whatever get_item returned
UdGet1AlwaysPut(r) ==
    /\ runs[r].pc = "ud_get1"
    /\ runs' = [runs EXCEPT ![r].pc = "ud_put"]
    /\ UNCHANGED <<tracker, cinv, queue, execs, tables, directs, ut>>

\* update_dynamodb, step 1: get_item
UdGet1(r) ==
    /\ runs[r].pc = "ud_get1"
    /\ runs' = [runs EXCEPT ![r].pc = IF tracker.exists THEN "ud_get2" ELSE "ud_put"]
    /\ UNCHANGED <<tracker, cinv, queue, execs, tables, directs, ut>>

\* update_dynamodb, step 1: put_item of the item with an empty database_list
UdPut(r) ==
    /\ runs[r].pc = "ud_put"
    /\ tracker' = EmptyItem
    /\ runs' = [runs EXCEPT ![r].pc = "ud_get2"]
    /\ UNCHANGED <<cinv, queue, execs, tables, directs, ut>>

\* update_dynamodb, step 2: get_item and the test basename in database_list_item
UdGet2(r) ==
    /\ runs[r].pc = "ud_get2"
    /\ runs' = [runs EXCEPT ![r].found = TableNameOf(runs[r].key) \in DOMAIN tracker.list,
                            ![r].pc = "ud_update"]
    /\ UNCHANGED <<tracker, cinv, queue, execs, tables, directs, ut>>

\* UdUpdate with the ClientError of update_item logged and not raised
UdUpdateSwallow(r) ==
    /\ runs[r].pc = "ud_update"
    /\ LET basename == TableNameOf(runs[r].key)
           pathOk == /\ tracker.exists
                     /\ (runs[r].found => basename \in DOMAIN tracker.list)
       IN \/ /\ pathOk
             /\ tracker' = [tracker EXCEPT !.list = MapSet(@, basename, runs[r].folder)]
             /\ runs' = [runs EXCEPT ![r].pc = "sns", ![r].wrote = TRUE]
          \/ /\ ~pathOk
             /\ runs' = [runs EXCEPT ![r].pc = "sns"]
             /\ UNCHANGED tracker
          \/ /\ runs' = [runs EXCEPT ![r].pc = "sns"]
             /\ UNCHANGED tracker
    /\ UNCHANGED <<cinv, queue, execs, tables, directs, ut>>

\* update_dynamodb, step 2: update_item. SET database_list.#basename.folder_name
\* needs the entry to exist, SET database_list.#basename needs the map; without
\* them DynamoDB answers a ValidationException, a ClientError, which is logged
\* and raised, as is every other ClientError of update_item
UdUpdate(r) ==
    /\ runs[r].pc = "ud_update"
    /\ LET basename == TableNameOf(runs[r].key)
           pathOk == /\ tracker.exists
                     /\ (runs[r].found => basename \in DOMAIN tracker.list)
       IN \/ /\ pathOk
             /\ tracker' = [tracker EXCEPT !.list = MapSet(@, basename, runs[r].folder)]
             /\ runs' = [runs EXCEPT ![r].pc = "sns", ![r].wrote = TRUE]
          \/ /\ ~pathOk
             /\ runs' = [runs EXCEPT ![r].pc = "failed",
                                     ![r].err = [kind |-> "ClientError", row |-> 0]]
             /\ UNCHANGED tracker
          \/ \* update_item raises for another reason of the service
             /\ runs' = [runs EXCEPT ![r].pc = "failed",
                                     ![r].err = [kind |-> "ClientError", row |-> 0]]
             /\ UNCHANGED tracker
    /\ UNCHANGED <<cinv, queue, execs, tables, directs, ut>>

\* send_sns_notification: published, or a ClientError is raised
JobNotify(r) ==
    /\ runs[r].pc = "sns"
    /\ \/ runs' = [runs EXCEPT ![r].pc = "done", ![r].notified = TRUE]
       \/ runs' = [runs EXCEPT ![r].pc = "failed",
                               ![r].err = [kind |-> "ClientError", row |-> 0]]
    /\ UNCHANGED <<tracker, cinv, queue, execs, tables, directs, ut>>

----------------------------------------------------------------------------
UtIdle == [pc |-> "idle"]

Init ==
    /\ tracker = NoItem
    /\ cinv = <<>>
    /\ queue = <<>>
    /\ execs = <<>>
    /\ runs = <<>>
    /\ tables = [t \in TableNames |-> NoTable]
    /\ directs = 0
    /\ ut = UtIdle

Next ==
    \/ \E key \in ArrivalKeys : Arrive(key)
    \/ \E n \in 1..Len(cinv) : Dispatch(n)
    \/ \E e \in 1..Len(execs) : DownstreamLambda(e)
    \/ \E key \in DirectKeys : DirectJobRun(key)
    \/ \E r \in 1..Len(runs) : JobReadAndCheck(r)
    \/ \E r \in 1..Len(runs) : UploadRow(r)
    \/ \E r \in 1..Len(runs) : UdGet1(r)
    \/ \E r \in 1..Len(runs) : UdPut(r)
    \/ \E r \in 1..Len(runs) : UdGet2(r)
    \/ \E r \in 1..Len(runs) : UdUpdate(r)
    \/ \E r \in 1..Len(runs) : JobNotify(r)

Spec == Init /\ [][Next]_vars

----------------------------------------------------------------------------
\* The queue and its parallel consumers (SpecQueue). The queue hands out the
\* messages of one message group in the order they were sent, and none of a
\* group while an earlier message of that group is not deleted; messages of
\* different groups are handed out independently.

\* the identity a message is about: the base name of the file of its path
IdentityOfPath(path) == BaseNameOf(path[Len(path)])

\* a consumer receives message i
Receive(i) ==
    /\ queue[i].st = "queued"
    /\ \A j \in 1..(i - 1) : queue[j].group = queue[i].group => queue[j].st = "done"
    /\ queue' = [queue EXCEPT ![i].st = "inflight"]
    /\ UNCHANGED <<tracker, cinv, execs, runs, tables, directs, ut>>

\* the consumer has processed message i and deletes it
Delete(i) ==
    /\ queue[i].st = "inflight"
    /\ queue' = [queue EXCEPT ![i].st = "done"]
    /\ UNCHANGED <<tracker, cinv, execs, runs, tables, directs, ut>>

NextQueue ==
    \/ \E key \in ArrivalKeys : Arrive(key)
    \/ \E n \in 1..Len(cinv) : Dispatch(n)
    \/ \E i \in 1..Len(queue) : Receive(i)
    \/ \E i \in 1..Len(queue) : Delete(i)

SpecQueue == Init /\ [][NextQueue]_vars

----------------------------------------------------------------------------
\* The downstream lambda invoked directly, with a re-drive message or with an
\* object-created notification (SpecRedrive).

NextRedrive ==
    \/ \E path \in RedrivePaths : Redrive(path)
    \/ \E key \in DirectKeys : ObjectCreated(key)
    \/ \E e \in 1..Len(execs) : DownstreamLambda(e)
    \/ \E r \in 1..Len(runs) : JobReadAndCheck(r)
    \/ \E r \in 1..Len(runs) : UploadRow(r)
    \/ \E r \in 1..Len(runs) : UdGet1(r)
    \/ \E r \in 1..Len(runs) : UdPut(r)
    \/ \E r \in 1..Len(runs) : UdGet2(r)
    \/ \E r \in 1..Len(runs) : UdUpdate(r)
    \/ \E r \in 1..Len(runs) : JobNotify(r)

SpecRedrive == Init /\ [][NextRedrive]_vars

----------------------------------------------------------------------------
\* The scenario of three arrivals of one identity (SpecScenario).

NextScenario ==
    \/ ArriveScenario
    \/ \E n \in 1..Len(cinv) : Dispatch(n)
    \/ \E e \in 1..Len(execs) : DownstreamLambda(e)
    \/ \E r \in 1..Len(runs) : JobReadAndCheck(r)
    \/ \E r \in 1..Len(runs) : UploadRow(r)
    \/ \E r \in 1..Len(runs) : UdGet1(r)
    \/ \E r \in 1..Len(runs) : UdPut(r)
    \/ \E r \in 1..Len(runs) : UdGet2(r)
    \/ \E r \in 1..Len(runs) : UdUpdate(r)
    \/ \E r \in 1..Len(runs) : JobNotify(r)

SpecScenario == Init /\ [][NextScenario]_vars

----------------------------------------------------------------------------
\* analyze_database_file on a header row and a first row (SpecSchema).

MaxCols == 3

\* str.isdigit() of a text of ASCII characters
IsDigitStr(v) == Len(v) > 0 /\ \A i \in 1..Len(v) : IsDigit(v[i])

\* index of the first character of v that is in cs, 0 without one
FirstIndex(v, cs) ==
    LET hits == {i \in 1..Len(v) : v[i] \in cs}
    IN IF hits = {} THEN 0 ELSE CHOOSE i \in hits : \A j \in hits : i <= j

\* the mantissa float() accepts: digits, a point, or both, with at least one digit
MantissaOk(m) ==
    LET d == FirstIndex(m, {"."})
        ip == IF d = 0 THEN m ELSE SubSeq(m, 1, d - 1)
        fp == IF d = 0 THEN <<>> ELSE SubSeq(m, d + 1, Len(m))
    IN /\ ip = <<>> \/ IntBodyOk(ip)
       /\ fp = <<>> \/ IntBodyOk(fp)
       /\ ip # <<>> \/ fp # <<>>

\* whether Python's float(v) returns (TRUE) or raises ValueError (FALSE), for
\* a text without blanks
PyFloatOk(v) ==
    LET u == IntBody(v)
        e == FirstIndex(u, {"e", "E"})
    IN \/ u \in { <<"n", "a", "n">>, <<"i", "n", "f">>, <<"i", "n", "f", "i", "n", "i", "t", "y">> }
       \/ /\ e = 0
          /\ MantissaOk(u)
       \/ /\ e > 0
          /\ MantissaOk(SubSeq(u, 1, e - 1))
          /\ PyIntOk(SubSeq(u, e + 1, Len(u)))

\* the data type analyze_database_file gives a first-row value
DataTypeOf(value) ==
    IF IsDigitStr(value) THEN "INTEGER"
    ELSE IF PyFloatOk(value) THEN "FLOAT"
    ELSE "VARCHAR(255)"

Min(a, b) == IF a <= b THEN a ELSE b

\* for header, value in zip(headers, first_row): schema.append(...)
AnalyzeSchema(headers, first_row) ==
    [i \in 1..Min(Len(headers), Len(first_row)) |->
        [column_name |-> headers[i], data_type |-> DataTypeOf(first_row[i])]]

\* the header of the file: the first n of the columns id, name, gpa, c4, ...
ColumnName(i) ==
    IF i = 1 THEN "id" ELSE IF i = 2 THEN "name" ELSE IF i = 3 THEN "gpa" ELSE "c"

Headers(n) == [i \in 1..n |-> ColumnName(i)]

\* the values a first row is made of
SampleValues ==
    { <<"1", "2">>,
      <<"-", "1", "2">>,
      <<"3", ".", "9">>,
      <<"A", "n", "n">>,
      <<>>,
      <<"1", "e", "5">>,
      <<".", "5">>,
      <<"1", "_", "0">> }

\* the files get_object returns: an empty file, a file of a header row only,
\* and files of a header row and a first row; lines is the number of lines
\* csv.reader has to give
SchemaFiles ==
    { [lines |-> 0, headers |-> <<>>, first_row |-> <<>>] }
    \cup { [lines |-> 1, headers |-> Headers(n), first_row |-> <<>>] : n \in 1..MaxCols }
    \cup { [lines |-> 2, headers |-> Headers(n), first_row |-> r] :
             n \in 1..MaxCols,
             r \in UNION { [1..m -> SampleValues] : m \in 1..MaxCols } }

SchemaInit ==
    /\ tracker = NoItem
    /\ cinv = <<>>
    /\ queue = <<>>
    /\ execs = <<>>
    /\ runs = <<>>
    /\ tables = [t \in TableNames |-> NoTable]
    /\ directs = 0
    /\ ut \in { [pc |-> "sniff", lines |-> f.lines, headers |-> f.headers,
                  first_row |-> f.first_row, schema |-> <<>>, err |-> "none"] :
                  f \in SchemaFiles }

\* analyze_database_file: get_object raises; or next(reader) finds no header
\* row or no first row and raises StopIteration; or the schema is returned
AnalyzeDatabaseFile ==
    /\ ut.pc = "sniff"
    /\ \/ ut' = [ut EXCEPT !.pc = "failed", !.err = "ClientError"]
       \/ /\ ut.lines < 2
          /\ ut' = [ut EXCEPT !.pc = "failed", !.err = "StopIteration"]
       \/ /\ ut.lines = 2
          /\ ut' = [ut EXCEPT !.pc = "sniffed",
                              !.schema = AnalyzeSchema(ut.headers, ut.first_row)]
    /\ UNCHANGED <<tracker, cinv, queue, execs, runs, tables, directs>>

SpecSchema == SchemaInit /\ [][AnalyzeDatabaseFile]_vars

----------------------------------------------------------------------------
\* update_dynamodb called once, with no other writer (SpecTracker).

\* the tracking items the call finds: no item, an item with an empty map, and
\* items with records of a, of b or of both
PriorItems ==
    { NoItem, EmptyItem }
    \cup { [exists |-> TRUE, list |-> MapSet(<<>>, BaseNameOf(f), v)] :
             f \in {FileA, FileB}, v \in { <<"-", "1">>, <<"0">>, <<"1">> } }
    \cup { [exists |-> TRUE,
            list |-> MapSet(MapSet(<<>>, BaseNameOf(FileA), v), BaseNameOf(FileB), <<"0">>)] :
             v \in { <<"0">>, <<"1">> } }

\* the keys update_dynamodb is called with
TrackerKeys == {k \in ArrivalKeys : KeyParses(k)}

\* the run is at the call of update_dynamodb; ut keeps the item it found
TrackerInit ==
    /\ tracker \in PriorItems
    /\ cinv = <<>>
    /\ queue = <<>>
    /\ execs = <<>>
    /\ \E key \in TrackerKeys :
          runs = << [NewRun(FilePathOf(BucketName, key), 0) EXCEPT
                       !.pc = "ud_get1", !.k = Len(CleanData(RawRows(key)))] >>
    /\ tables = [t \in TableNames |-> NoTable]
    /\ directs = 0
    /\ ut = [pc |-> "update", prior |-> tracker]

NextTracker ==
    \/ \E r \in 1..Len(runs) : UdGet1(r)
    \/ \E r \in 1..Len(runs) : UdPut(r)
    \/ \E r \in 1..Len(runs) : UdGet2(r)
    \/ \E r \in 1..Len(runs) : UdUpdate(r)

SpecTracker == TrackerInit /\ [][NextTracker]_vars

----------------------------------------------------------------------------
\* Arrivals of files whose names end in a digit or a dash (SpecIds).

\* object keys 0/a1.csv, 10/a.csv, 1/a-.csv and -1/a.csv
IdKeys ==
    { <<<<"0">>, <<"a", "1", ".", "c", "s", "v">>>>, <<<<"1", "0">>, FileA>>,
      <<<<"1">>, <<"a", "-", ".", "c", "s", "v">>>>, <<<<"-", "1">>, FileA>> }

NextIds ==
    \/ \E key \in IdKeys : Arrive(key)
    \/ \E n \in 1..Len(cinv) : Dispatch(n)

SpecIds == Init /\ [][NextIds]_vars

----------------------------------------------------------------------------
\* The identity and version the coordinator derives from an object key and
\* those the load job derives from the file path made of it (SpecNames).

NameFolders ==
    { <<"0">>, <<"1">>, <<"-", "1">>, <<"+", "1">>, <<"1", "_", "0">>, <<"1", "0">>, <<"0", "0", "7">>, <<"x">> }

NameFiles ==
    { <<"a", ".", "c", "s", "v">>,
      <<"a", ".", "t", "x", "t">>,
      <<"a", ".", "c", "s", "v", ".", "c", "s", "v">>,
      <<"a">>,
      <<"a", ".", "b", ".", "c", "s", "v">>,
      <<"a", ".", "c", "s", "v", ".", "g", "z">>,
      <<".", "c", "s", "v">>,
      <<"b", ".", "c", "s", "v">> }

NamesInit ==
    /\ tracker = NoItem
    /\ cinv = <<>>
    /\ queue = <<>>
    /\ execs = <<>>
    /\ runs = <<>>
    /\ tables = [t \in TableNames |-> NoTable]
    /\ directs = 0
    /\ ut \in { [pc |-> "arrived", key |-> <<d, f>>, lookup |-> <<>>, compared |-> 0,
                  written |-> <<>>, stored |-> <<>>] :
                  d \in NameFolders, f \in NameFiles }

\* lambda_handler derives base_name and timestamp from the key; for the path
\* process_new_file makes of it, main and update_dynamodb derive basename and
\* folder_name
DeriveNames ==
    /\ ut.pc = "arrived"
    /\ \/ /\ ~KeyParses(ut.key)
          /\ ut' = [ut EXCEPT !.pc = "parse_error"]
       \/ /\ KeyParses(ut.key)
          /\ LET p == ParseS3Path(FilePathOf(BucketName, ut.key))
             IN ut' = [ut EXCEPT !.pc = "derived",
                                 !.lookup = BaseNameOf(ut.key[2]),
                                 !.compared = PyInt(ut.key[1]),
                                 !.written = TableNameOf(p.key),
                                 !.stored = p.folder_name]
    /\ UNCHANGED <<tracker, cinv, queue, execs, runs, tables, directs>>

SpecNames == NamesInit /\ [][DeriveNames]_vars

----------------------------------------------------------------------------
\* upload_to_rds run twice with one dataset on one table (SpecUpsert).

TrialRows == { [id |-> i, val |-> v] : i \in {1, 2}, v \in { <<"x">>, <<"y">>, <<>> } }

\* the datasets upload_to_rds is given: files of up to MaxRows rows, cleaned
TrialDatasets ==
    { CleanData(f) : f \in UNION { [1..n -> TrialRows] : n \in 0..MaxRows } }

\* a table of create_rds_table, and keyed tables, empty or holding a row
TrialTables ==
    { CreatedTable, KeyedTable,
      [KeyedTable EXCEPT !.rows = SetToBag({[id |-> 1, val |-> <<"w">>]})] }

UtInit ==
    /\ tracker = NoItem
    /\ cinv = <<>>
    /\ queue = <<>>
    /\ execs = <<>>
    /\ runs = <<>>
    /\ tables = [t \in TableNames |-> NoTable]
    /\ directs = 0
    /\ ut \in { [pc |-> "run1", table |-> t, data |-> d, k |-> 0, after1 |-> EmptyBag] :
                  t \in TrialTables, d \in TrialDatasets }

\* upload_to_rds, one row: execute and commit, or rollback and raise
UtUploadRow ==
    /\ ut.pc \in {"run1", "run2"}
    /\ ut.k < Len(ut.data)
    /\ \/ ut' = [ut EXCEPT !.table = UpsertRow(@, ut.data[ut.k + 1]), !.k = @ + 1]
       \/ ut' = [ut EXCEPT !.pc = "failed"]
    /\ UNCHANGED <<tracker, cinv, queue, execs, runs, tables, directs>>

\* upload_to_rds returns after the last row: the second run follows the first
UtReturn ==
    /\ ut.pc \in {"run1", "run2"}
    /\ ut.k = Len(ut.data)
    /\ \/ /\ ut.pc = "run1"
          /\ ut' = [ut EXCEPT !.pc = "run2", !.k = 0, !.after1 = ut.table.rows]
       \/ /\ ut.pc = "run2"
          /\ ut' = [ut EXCEPT !.pc = "done"]
    /\ UNCHANGED <<tracker, cinv, queue, execs, runs, tables, directs>>

UtNext == UtUploadRow \/ UtReturn

SpecUpsert == UtInit /\ [][UtNext]_vars

----------------------------------------------------------------------------
\* Properties.

Invs == 1..Len(cinv)

RunIds == 1..Len(runs)

\* the invocation read the tracking item (the key parsed, get_item answered)
HasRead(n) == cinv[n].read

Accepted(n) == cinv[n].decision = "accept"

\* the invocation sent its queue message and started its workflow execution
Dispatched(n) ==
    cinv[n].pc = "done" /\ cinv[n].sent = "ok" /\ cinv[n].started = "ok"

\* the invocation saw no item, or an item without an entry for its identity
SawNothing(n) ==
    HasRead(n) /\ (~cinv[n].item.exists \/ cinv[n].base \notin DOMAIN cinv[n].item.list)

\* C1: an arrival whose key parses and whose identity has no entry in the
\* tracking item (or there is no item) is accepted whatever its version:
\* process_new_file is called for it, a send that returns leaves its message
\* in the queue and a start that returns leaves its workflow execution
C1_FirstSightingAccepted ==
    \A n \in Invs :
        SawNothing(n) =>
            /\ Accepted(n)
            /\ cinv[n].pc = "done" =>
                 /\ cinv[n].outcome = "processed"
                 /\ cinv[n].sent # "no"
                 /\ cinv[n].sent = "ok" =>
                      \E i \in 1..Len(queue) :
                          queue[i].dedup = MessageDeduplicationId(cinv[n].base, cinv[n].ts)
                 /\ cinv[n].started = "ok" => \E e \in 1..Len(execs) : execs[e].by = n

\* a negative version is dispatched on an item that holds other identities
\* only, and version 0 is dispatched without an item
C1_Witness ==
    /\ \E n \in Invs :
          /\ SawNothing(n) /\ cinv[n].item.exists /\ cinv[n].ts < 0 /\ Dispatched(n)
    /\ \E n \in Invs :
          /\ SawNothing(n) /\ ~cinv[n].item.exists /\ cinv[n].ts = 0 /\ Dispatched(n)

\* C2: when the arrival of vb was accepted and dispatched before the arrival
\* of va <= vb of the same identity started, va is rejected as stale: no queue
\* message and no workflow start for it
C2_StaleRejected ==
    \A m \in Invs : \A n \in Invs :
        ( /\ m \in cinv[n].prior
          /\ Accepted(m) /\ Dispatched(m)
          /\ HasRead(n)
          /\ cinv[n].base = cinv[m].base
          /\ cinv[n].ts <= cinv[m].ts )
        => /\ cinv[n].decision = "reject"
           /\ cinv[n].sent = "no"
           /\ cinv[n].started = "no"

\* every invocation has returned, every accepted arrival was dispatched and
\* led to a load run, and every load run has ended normally
AllProcessed ==
    /\ \A n \in Invs : cinv[n].pc = "done"
    /\ \A e \in 1..Len(execs) : execs[e].pc = "triggered"
    /\ \A n \in Invs : Accepted(n) =>
          /\ Dispatched(n)
          /\ \E r \in RunIds : runs[r].by # 0 /\ execs[runs[r].by].by = n
    /\ \A r \in RunIds : runs[r].pc = "done"

\* the arrivals of an identity came one after the other was handled, with
\* strictly increasing versions, and each read the tracking item
InOrder(base) ==
    LET mine == {n \in Invs : cinv[n].base = base /\ KeyParses(cinv[n].key)}
    IN /\ Cardinality(mine) >= 2
       /\ \A n \in mine : HasRead(n)
       /\ \A m \in mine : \A n \in mine :
             m < n => (m \in cinv[n].prior /\ cinv[m].ts < cinv[n].ts)

LastOf(base) ==
    CHOOSE n \in Invs : cinv[n].base = base /\ \A m \in Invs : cinv[m].base = base => m <= n

\* C3: versions v1 < ... < vn of one identity delivered in that order are all
\* accepted, and once all their processing has finished the tracking record
\* of the identity holds vn
C3_InOrderEndsAtLast ==
    \A base \in { BaseNameOf(FileA), BaseNameOf(FileB) } :
        InOrder(base) =>
            /\ \A n \in Invs : cinv[n].base = base => Accepted(n)
            /\ AllProcessed =>
                 /\ tracker.exists
                 /\ base \in DOMAIN tracker.list
                 /\ tracker.list[base] = cinv[LastOf(base)].key[1]

\* C4: the versions the coordinator accepts for one identity strictly
\* increase in the order of acceptance
C4_MonotonicAcceptance ==
    \A m \in Invs : \A n \in Invs :
        (m < n /\ Accepted(m) /\ Accepted(n) /\ cinv[m].base = cinv[n].base)
        => cinv[m].ts < cinv[n].ts

\* C5: for one arrival delivered twice the two deduplication ids are equal,
\* at most one queue message is kept and at most one workflow execution (and
\* so at most one load run) is started
C5_RedeliveryOnce ==
    \A m \in Invs : \A n \in Invs :
        (m < n /\ cinv[m].key = cinv[n].key /\ HasRead(m) /\ HasRead(n))
        => /\ MessageDeduplicationId(cinv[m].base, cinv[m].ts)
                = MessageDeduplicationId(cinv[n].base, cinv[n].ts)
           /\ Cardinality({i \in 1..Len(queue) :
                 queue[i].dedup = MessageDeduplicationId(cinv[n].base, cinv[n].ts)}) <= 1
           /\ Cardinality({e \in 1..Len(execs) : execs[e].by \in {m, n}}) <= 1
           /\ Cardinality({r \in RunIds :
                 runs[r].by # 0 /\ execs[runs[r].by].by \in {m, n}}) <= 1

\* the run committed the statement of every row of its cleaned dataset
LoadedAll(r) == runs[r].k = Len(Cleaned(r)) /\ runs[r].pc \notin {"read", "upload", "aborted"}

\* C6: every version the tracking item holds for an identity was written by a
\* load run of that identity's file in that folder which had committed every
\* row of its cleaned dataset; a run that found no table or failed on a row
\* has written nothing to the tracker
C6_TrackerOnlyLoaded ==
    /\ \A b \in DOMAIN tracker.list :
          \E r \in RunIds :
              /\ TableNameOf(runs[r].key) = b
              /\ runs[r].folder = tracker.list[b]
              /\ runs[r].wrote
              /\ LoadedAll(r)
    /\ \A r \in RunIds :
          runs[r].wrote =>
              /\ LoadedAll(r)
              /\ runs[r].err.kind # "MySQLError"

\* the tracker holds a version a run wrote while another run was aborted on a
\* missing table
C6_Witness ==
    /\ tracker.exists /\ DOMAIN tracker.list # {}
    /\ \E r \in RunIds : runs[r].pc = "aborted"
    /\ \E r \in RunIds : runs[r].wrote

\* C7: upload_to_rds run twice with one dataset leaves the table with the
\* rows, and the number of rows, it had after the first run
C7_UpsertIdempotent ==
    ut.pc = "done" => ut.table.rows = ut.after1

\* C8: a run whose statement for row k failed has committed rows 1..k-1 and
\* no other row, and the error it raised names k
C8_RowFailureReported ==
    \A r \in RunIds :
        (runs[r].pc = "failed" /\ runs[r].err.kind = "MySQLError")
        => /\ runs[r].k < Len(Cleaned(r))
           /\ \A i \in 1..runs[r].k : BagIn(Cleaned(r)[i], tables[runs[r].table].rows)
           /\ runs[r].err.row = runs[r].k + 1

\* C9: a run that found its table missing has written no row and nothing to
\* the tracker, and has published no notification
C9_MissingTableNoEffect ==
    \A r \in RunIds :
        runs[r].pc = "aborted"
        => /\ runs[r].k = 0
           /\ ~runs[r].wrote
           /\ ~runs[r].notified
           /\ runs[r].published = 0

\* C10: an accepted arrival whose queue send or workflow start raised ends in
\* an error response, not in 'File processed successfully'
C10_DispatchFailureSurfaced ==
    \A n \in Invs :
        (cinv[n].pc = "done" /\ Accepted(n)
            /\ (cinv[n].sent = "failed" \/ cinv[n].started = "failed"))
        => cinv[n].outcome = "error"

\* C11: an arrival whose key has not exactly two segments, or whose folder is
\* no integer, ends with the parse error (statusCode 400); no get_item, no
\* queue send and no workflow start was made for it
C11_ParseFailureNoEffect ==
    \A n \in Invs :
        (Len(cinv[n].key) # 2 \/ ~PyIntOk(cinv[n].key[1]))
        => /\ cinv[n].pc = "done"
           /\ cinv[n].outcome = "parse_error"
           /\ ~cinv[n].read
           /\ cinv[n].decision = "none"
           /\ cinv[n].sent = "no"
           /\ cinv[n].started = "no"
           /\ \A e \in 1..Len(execs) : execs[e].by # n
           /\ \A i \in 1..Len(queue) :
                 queue[i].path # FilePathOf(BucketName, cinv[n].key)

\* a key of three segments and a key with a folder that is no integer were
\* both answered with the parse error
C11_Witness ==
    /\ \E n \in Invs : Len(cinv[n].key) = 3 /\ cinv[n].outcome = "parse_error"
    /\ \E n \in Invs :
          /\ Len(cinv[n].key) = 2 /\ ~PyIntOk(cinv[n].key[1])
          /\ cinv[n].outcome = "parse_error"

\* C12: of two messages of one identity, the one dispatched later is not
\* handed to a consumer before the earlier one has been processed and deleted
C12_PerIdentityOrder ==
    \A i, j \in 1..Len(queue) :
        (/\ i < j
         /\ IdentityOfPath(queue[i].path) = IdentityOfPath(queue[j].path)
         /\ queue[j].st # "queued")
        => queue[i].st = "done"

\* C13: once two load runs of different identities have both written their
\* record, the tracking index holds the records of both identities
C13_DifferentIdentitiesIndependent ==
    \A r1, r2 \in RunIds :
        (/\ runs[r1].wrote
         /\ runs[r2].wrote
         /\ TableNameOf(runs[r1].key) # TableNameOf(runs[r2].key))
        => /\ TableNameOf(runs[r1].key) \in DOMAIN tracker.list
           /\ TableNameOf(runs[r2].key) \in DOMAIN tracker.list

\* C14: the coordinator rejects a version only after a load run has recorded
\* the identity; until then every arrival of the identity that is read is
\* accepted, so two arrivals of one identity that overlap are both accepted
\* and dispatched, the second with a version less than or equal to the first
C14_RejectOnlyAfterRecorded ==
    \A n \in Invs :
        cinv[n].decision = "reject"
        => \E r \in RunIds :
              runs[r].wrote /\ TableNameOf(runs[r].key) = cinv[n].base

\* two arrivals of one identity, the second started before the first was
\* done and with a version not above the first's, were both dispatched
C14_Witness ==
    \E m, n \in Invs :
        /\ m < n
        /\ m \notin cinv[n].prior
        /\ cinv[m].base = cinv[n].base
        /\ cinv[n].ts <= cinv[m].ts
        /\ Dispatched(m)
        /\ Dispatched(n)
        /\ \A r \in RunIds : ~runs[r].wrote

\* the invocation a step starts finds a stored version for its identity that
\* its own version does not exceed
StartsStale(n) ==
    /\ Len(cinv') = n /\ Len(cinv) = n - 1
    /\ cinv'[n].read
    /\ cinv'[n].base \in DOMAIN tracker.list
    /\ PyIntOk(RemoveChar(tracker.list[cinv'[n].base], "_"))
    /\ cinv'[n].ts <= PyInt(RemoveChar(tracker.list[cinv'[n].base], "_"))

Students == BaseNameOf(FileStudents)

\* the tracking index holds version v for the identity students
Holds(v) == Students \in DOMAIN tracker.list /\ tracker.list[Students] = v

\* invocation n read an index that held version v for the identity students
SawVersion(n, v) ==
    /\ cinv[n].read
    /\ Students \in DOMAIN cinv[n].item.list
    /\ cinv[n].item.list[Students] = v

\* an invocation that finds a stored version not below its own ends with
\* 'No new action taken' and changes neither the tracking item, the queue nor
\* the executions
C15_StaleStep ==
    \A n \in 1..Len(ScenarioKeys) :
        StartsStale(n)
        => /\ cinv'[n].outcome = "stale"
           /\ cinv'[n].pc = "done"
           /\ cinv'[n].sent = "no" /\ cinv'[n].started = "no"
           /\ tracker' = tracker
           /\ queue' = queue
           /\ execs' = execs

\* the scenario: the second arrival, coming after 2024010100 was recorded, is
\* rejected and the index holds 2024010100 after it; the third is accepted
\* and, once its load run has recorded it, the index holds 2024010200
C15_ScenarioState ==
    /\ \A n \in Invs :
          cinv[n].outcome = "stale"
          => /\ cinv[n].pc = "done"
             /\ cinv[n].sent = "no" /\ cinv[n].started = "no"
             /\ \A e \in 1..Len(execs) : execs[e].by # n
    /\ (Len(cinv) >= 2 /\ SawVersion(2, V1))
       => /\ cinv[2].outcome = "stale"
          /\ (Len(cinv) = 2 => Holds(V1))
    /\ (Len(cinv) >= 3 /\ SawVersion(3, V1))
       => cinv[3].decision = "accept"
    /\ (\E r \in RunIds : runs[r].folder = V3 /\ runs[r].wrote) => Holds(V3)

\* C15: a stale arrival is a silent no-op (a non-error answer, the tracking
\* record unchanged, no queue message, no workflow start); in the scenario the
\* index holds 2024010100 after the second arrival and 2024010200 after the
\* third
C15_StaleRejectionNoOp == [][C15_StaleStep]_vars /\ []C15_ScenarioState

\* the scenario has run: 2024010100 was dispatched and recorded, 2024010099
\* was rejected against it, 2024010200 was dispatched and recorded, and its
\* redelivery was rejected
C15_Witness ==
    /\ Len(cinv) = 4
    /\ Dispatched(1)
    /\ cinv[2].outcome = "stale" /\ cinv[2].item.list[Students] = V1
    /\ Dispatched(3)
    /\ cinv[4].outcome = "stale" /\ cinv[4].item.list[Students] = V3
    /\ Holds(V3)
    /\ \E r \in RunIds : runs[r].folder = V3 /\ runs[r].notified

\* an integer literal of either sign: an optional sign and a run of digits
IsIntegerLiteral(v) == IsDigitStr(IntBody(v))

\* the type the classification rule names for a sample value
RuleType(v) ==
    IF IsIntegerLiteral(v) THEN "INTEGER"
    ELSE IF PyFloatOk(v) THEN "FLOAT"
    ELSE "VARCHAR(255)"

\* C16: the schema analyze_database_file returns has one entry per column of
\* the header, in header order, typed INTEGER for an integer literal of either
\* sign, else FLOAT for a decimal, else VARCHAR(255)
C16_SchemaClassification ==
    ut.pc = "sniffed"
    => /\ Len(ut.schema) = Len(ut.headers)
       /\ \A i \in 1..Len(ut.schema) :
             /\ ut.schema[i].column_name = ut.headers[i]
             /\ i <= Len(ut.first_row)
             /\ ut.schema[i].data_type = RuleType(ut.first_row[i])

\* C17: a re-drive with the locator <container>/<key> that the lambda has
\* handled without a failure of a service has not raised and has led to
\* exactly one load job run, started with that file path
C17_RedriveTriggersLoad ==
    \A e \in 1..Len(execs) :
        (/\ execs[e].by = 0
         /\ execs[e].form = "filePath"
         /\ ~StartsWithS3(execs[e].path)
         /\ execs[e].pc # "started"
         /\ execs[e].err # "service")
        => /\ execs[e].pc = "triggered"
           /\ execs[e].err = "none"
           /\ Cardinality({r \in RunIds : runs[r].by = e /\ runs[r].path = execs[e].path}) = 1

\* the version the original statement has in the index once invocation n is
\* dispatched
C18_DispatchStepRecords ==
    \A n \in Invs :
        (~Dispatched(n) /\ Dispatched(n)')
        => /\ cinv[n].base \in DOMAIN tracker'.list
           /\ tracker'.list[cinv[n].base] = cinv[n].key[1]

C18_TrackerStep ==
    tracker' # tracker
    => /\ cinv' = cinv
       /\ \E r \in RunIds :
             /\ runs[r].pc \in {"ud_put", "ud_update"}
             /\ runs'[r].pc # runs[r].pc
             /\ LoadedAll(r)
       /\ \A b \in DOMAIN tracker'.list :
             (b \notin DOMAIN tracker.list \/ tracker.list[b] # tracker'.list[b])
             => \E r \in RunIds :
                   /\ runs[r].pc = "ud_update"
                   /\ LoadedAll(r)
                   /\ b = TableNameOf(runs[r].key)
                   /\ tracker'.list[b] = runs[r].folder

C19_FinalStepsInOrder ==
    \A r \in RunIds :
        /\ runs[r].pc \in {"ud_get1", "ud_put", "ud_get2", "ud_update"}
           => LoadedAll(r) /\ ~runs[r].wrote /\ ~runs[r].notified
        /\ runs[r].wrote
           => LoadedAll(r) /\ runs[r].err.kind # "MySQLError"
        /\ runs[r].pc = "sns" => runs[r].wrote /\ ~runs[r].notified
        /\ runs[r].notified
           => runs[r].wrote /\ LoadedAll(r) /\ runs[r].pc = "done"

\* a run has gone through upload, tracker update and notification
C19_Witness ==
    \E r \in RunIds :
        /\ runs[r].notified
        /\ Len(Cleaned(r)) > 0
        /\ \E r2 \in RunIds : runs[r2].pc = "failed" /\ runs[r2].err.kind = "ClientError"
                              /\ ~runs[r2].wrote

\* C20 as stated: both partial failures are outcomes of a dispatch, so a
\* dispatch whose queue send failed has still tried to start the workflow
C20_SendsIndependent ==
    \A n \in Invs :
        (Accepted(n) /\ cinv[n].pc = "done" /\ cinv[n].sent = "failed")
        => cinv[n].started # "no"

\* C20, amended: the workflow start is attempted only after the queue send
\* returned; a failed start leaves the message in the queue, and a failed
\* send leaves the workflow unstarted
C20_StartOnlyAfterSend ==
    \A n \in Invs :
        /\ cinv[n].started # "no" => cinv[n].sent = "ok"
        /\ cinv[n].sent = "failed"
           => /\ cinv[n].started = "no"
              /\ \A e \in 1..Len(execs) : execs[e].by # n
        /\ cinv[n].sent = "ok"
           => \E i \in 1..Len(queue) :
                 queue[i].dedup = MessageDeduplicationId(cinv[n].base, cinv[n].ts)

\* one dispatch sent its message and failed to start the workflow, the
\* message staying in the queue; another failed to send and started nothing
C20_Witness ==
    \E m, n \in Invs :
        /\ cinv[m].sent = "ok" /\ cinv[m].started = "failed"
        /\ \E i \in 1..Len(queue) : queue[i].path = FilePathOf(BucketName, cinv[m].key)
        /\ \A e \in 1..Len(execs) : execs[e].by # m
        /\ cinv[n].sent = "failed" /\ cinv[n].started = "no" /\ cinv[n].pc = "done"

\* a run whose upload_to_rds raised on a row has ended with that error: it has
\* not attempted the rows after it, written no tracking record and sent no
\* success notification
C21_RowFailureState ==
    \A r \in RunIds :
        runs[r].err.kind = "MySQLError"
        => /\ runs[r].pc = "failed"
           /\ runs[r].k < Len(Cleaned(r))
           /\ ~runs[r].wrote
           /\ ~runs[r].notified

\* a run that has ended with the error of a row takes no further step
C21_RowFailureStep ==
    \A r \in RunIds : runs[r].err.kind = "MySQLError" => runs'[r] = runs[r]

\* C21: when upload_to_rds fails on a row the error propagates out of the
\* run, the remaining rows are not attempted, the run leaves the tracking
\* record as it was and sends no success notification
C21_RowFailureStopsRun == []C21_RowFailureState /\ [][C21_RowFailureStep]_vars

\* a run failed on its second row after committing the first; the index holds
\* no record of its identity
C21_Witness ==
    \E r \in RunIds :
        /\ runs[r].err.kind = "MySQLError"
        /\ runs[r].k = 1
        /\ tables[runs[r].table].rows # EmptyBag
        /\ TableNameOf(runs[r].key) \notin DOMAIN tracker.list

\* the tracking-store read, the queue send or the workflow start of
\* invocation n raised
ServiceFailed(n) ==
    \/ KeyParses(cinv[n].key) /\ ~cinv[n].read
    \/ cinv[n].sent = "failed"
    \/ cinv[n].started = "failed"

\* C22: an invocation in which the tracking-store read, the queue send or the
\* workflow start failed ends as a failed invocation (the exception leaves
\* lambda_handler), not with a returned response
C22_ServiceFailurePropagates ==
    \A n \in Invs :
        (cinv[n].pc = "done" /\ ServiceFailed(n)) => cinv[n].outcome = "raised"

\* C23: analyze_database_file raises nothing but a failure of the storage
\* read: for every file the storage returned, a file of a header row only and
\* an empty file included, it returns a schema
C23_SchemaNoFailurePath ==
    ut.pc = "failed" => ut.err = "ClientError"

\* C24: a call of update_dynamodb with no other writer, whatever item it
\* found, has on return the identity's record at exactly folder_name, the
\* index document in place, and every other identity's record as it was
C24_LoneUpdateEffect ==
    \A r \in RunIds :
        runs[r].wrote
        => LET basename == TableNameOf(runs[r].key)
           IN /\ tracker.exists
              /\ DOMAIN tracker.list = DOMAIN ut.prior.list \cup {basename}
              /\ tracker.list[basename] = runs[r].folder
              /\ \A b \in DOMAIN ut.prior.list \ {basename} :
                    tracker.list[b] = ut.prior.list[b]

\* the call has returned for a key of identity a in a state that had no index
\* document, in one that had a record of b only, and in one that had a record
\* of a at another version
C24_Witness ==
    \E r \in RunIds :
        /\ runs[r].wrote
        /\ TableNameOf(runs[r].key) = BaseNameOf(FileA)
        /\ \/ ~ut.prior.exists
           \/ DOMAIN ut.prior.list = {BaseNameOf(FileB)}
           \/ /\ BaseNameOf(FileA) \in DOMAIN ut.prior.list
              /\ ut.prior.list[BaseNameOf(FileA)] # runs[r].folder

\* the rows run r has upserted so far
Upserted(r) == {Cleaned(r)[i] : i \in 1..runs[r].k}

\* C25: no row with a null is in a table and no row of a file was upserted
\* twice by one run (a table holds a row at most once per run that upserted
\* it); a run has made one notification attempt per row with a null, and goes
\* on when attempts fail
C25_OnlyCleanedRowsLoaded ==
    /\ \A t \in TableNames :
          \A row \in BagToSet(tables[t].rows) :
             /\ ~RowHasNull(row)
             /\ CopiesIn(row, tables[t].rows)
                   <= Cardinality({r \in RunIds : runs[r].table = t /\ row \in Upserted(r)})
    /\ \A r \in RunIds :
          /\ Cardinality(Upserted(r)) = runs[r].k
          /\ runs[r].pc # "read"
             => /\ runs[r].alerts = NullRowCount(RawRows(runs[r].key))
                /\ runs[r].published <= runs[r].alerts

\* a run whose file held a row with a null and a repeated row, and whose
\* notification attempt for the null failed, has loaded its two cleaned rows
\* and ended normally
C25_Witness ==
    \E r \in RunIds :
        /\ runs[r].alerts = 1 /\ runs[r].published = 0
        /\ Len(RawRows(runs[r].key)) = 4
        /\ runs[r].k = 2
        /\ runs[r].pc = "done"
        /\ BagCardinality(tables[runs[r].table].rows) = 2

\* the version a stored folder name stands for
StoredVersion(folder_name) == PyInt(RemoveChar(folder_name, "_"))

\* no step lowers the version stored for an identity
C26_NoDecreaseStep ==
    \A b \in DOMAIN tracker.list \cap DOMAIN tracker'.list :
        StoredVersion(tracker'.list[b]) >= StoredVersion(tracker.list[b])

\* C26: the version stored in the tracking record of an identity never
\* decreases, in whatever order the load runs of its versions finish
C26_TrackerNeverBackwards == [][C26_NoDecreaseStep]_vars

\* C27: two accepted arrivals that differ in identity or version were sent
\* with different deduplication ids and different group ids, and the queue
\* holds a message for each
C27_IdsSeparateWorkItems ==
    \A m, n \in Invs :
        (/\ cinv[m].sent = "ok"
         /\ cinv[n].sent = "ok"
         /\ <<cinv[m].base, cinv[m].ts>> # <<cinv[n].base, cinv[n].ts>>)
        => /\ MessageDeduplicationId(cinv[m].base, cinv[m].ts)
                 # MessageDeduplicationId(cinv[n].base, cinv[n].ts)
           /\ MessageGroupId(cinv[m].base, cinv[m].ts)
                 # MessageGroupId(cinv[n].base, cinv[n].ts)
           /\ \E i \in 1..Len(queue) : queue[i].path = FilePathOf(BucketName, cinv[m].key)
           /\ \E i \in 1..Len(queue) : queue[i].path = FilePathOf(BucketName, cinv[n].key)

\* C28: for every key the coordinator accepts, the identity the load run
\* writes the record under is the identity the coordinator looks up, and the
\* stored folder name stands for the version the coordinator compared
C28_IdentityAndVersionAgree ==
    ut.pc = "derived"
    => /\ ut.written = ut.lookup
       /\ PyIntOk(RemoveChar(ut.stored, "_"))
       /\ StoredVersion(ut.stored) = ut.compared

\* C29: an object-created notification that the downstream lambda has handled
\* without a failure of a service has led to exactly one load job run,
\* started with the file path of that object; no run was started for one
\* whose schema analysis or table creation failed
C29_ObjectCreatedReachesLoad ==
    \A e \in 1..Len(execs) :
        (execs[e].form = "Records" /\ execs[e].pc # "started")
        => /\ execs[e].err # "service"
              => /\ execs[e].pc = "triggered"
                 /\ Cardinality({r \in RunIds : runs[r].by = e
                                                /\ runs[r].path = execs[e].path}) = 1
           /\ execs[e].err = "service" => \A r \in RunIds : runs[r].by # e

====
